---- MODULE Spec2Model ----
(***************************************************************************)
(* Model of backend/docker-containers/python/execute.py: one invocation    *)
(* of main(), which decodes a request from stdin, builds a CodeExecutor    *)
(* (configuration + workspace directory), runs the submitted code in a     *)
(* child process under a wall-clock timeout, removes the workspace and     *)
(* prints one JSON result.                                                 *)
(*                                                                         *)
(* The environment (stdin contents, EXECUTION_TIMEOUT, the file system,    *)
(* the behaviour of the child, the clock) is nondeterministic.  Library    *)
(* calls are modelled by their documented behaviour: json.loads, int,      *)
(* tempfile.mkdtemp, open/write, subprocess.run, shutil.rmtree.            *)
(***************************************************************************)
EXTENDS Integers, Sequences, FiniteSets, TLC

\* ---------------------------------------------------------------- bounds
\* Resolution of the model clock: clock ticks per second.
TicksPerSecond == 2
\* Longest time (in ticks) the model lets the parent wait for the child.
MaxWait == 4
\* Most execute_code calls a caller makes on one CodeExecutor.
MaxCalls == 2
\* Number of invocations that run at the same time.
NumWorkers == 2

\* ------------------------------------------------------- python helpers
NoValue == [t |-> "absent"]
JNull == [t |-> "null"]
JStr(s) == [t |-> "str", s |-> s]
JInt(n) == [t |-> "int", n |-> n]
JArray == [t |-> "array"]
JObject(keys, c) == [t |-> "object", keys |-> keys, code |-> c]
JError(m) == [t |-> "JSONDecodeError", msg |-> m]

\* Texts that may arrive on stdin.
InputTexts ==
  { "", " \n", "{", "[1]", "null", "{}",
    "{\"test_cases\": []}",
    "{\"code\": \"\"}", "{\"code\": null}", "{\"code\": 0}", "{\"code\": 5}",
    "{\"code\": \"print('hi')\"}",
    "{\"code\": \"while True: pass\", \"test_cases\": []}" }

\* str.strip() on the texts above: the text without surrounding whitespace.
strip(text) == IF text \in {"", " \n"} THEN "" ELSE text

\* json.loads on the texts above.
json_loads(text) ==
  CASE text = "{}" -> JObject({}, NoValue)
    [] text = "{\"test_cases\": []}" -> JObject({"test_cases"}, NoValue)
    [] text = "{\"code\": \"\"}" -> JObject({"code"}, JStr(""))
    [] text = "{\"code\": null}" -> JObject({"code"}, JNull)
    [] text = "{\"code\": 0}" -> JObject({"code"}, JInt(0))
    [] text = "{\"code\": 5}" -> JObject({"code"}, JInt(5))
    [] text = "{\"code\": \"print('hi')\"}" -> JObject({"code"}, JStr("print('hi')"))
    [] text = "{\"code\": \"while True: pass\", \"test_cases\": []}" ->
         JObject({"code", "test_cases"}, JStr("while True: pass"))
    [] text = "[1]" -> JArray
    [] text = "null" -> JNull
    [] text = "{" -> JError("Expecting property name enclosed in double quotes: line 1 column 2 (char 1)")
    [] OTHER -> JError("Expecting value: line 1 column 1 (char 0)")

\* data.get('code', ''): the value under 'code', or the default.
dict_get_code(d, default) == IF "code" \in d.keys THEN d.code ELSE default

\* Variant: the test `code is None` in place of `not code`.
truthy_none_only(v) == v.t \notin {"null", "absent"}

\* Python truth value of a decoded JSON value (the test of `not code`).
truthy(v) ==
  CASE v.t = "str" -> v.s # ""
    [] v.t = "int" -> v.n # 0
    [] OTHER -> FALSE

\* str(n) for an integer, as an f-string formats it.
Digit(d) ==
  CASE d = 0 -> "0" [] d = 1 -> "1" [] d = 2 -> "2" [] d = 3 -> "3"
    [] d = 4 -> "4" [] d = 5 -> "5" [] d = 6 -> "6" [] d = 7 -> "7"
    [] d = 8 -> "8" [] OTHER -> "9"
RECURSIVE NatStr(_)
NatStr(n) == IF n < 10 THEN Digit(n) ELSE NatStr(n \div 10) \o Digit(n % 10)
str(n) == IF n < 0 THEN "-" \o NatStr(-n) ELSE NatStr(n)

\* Values of the EXECUTION_TIMEOUT environment variable.
Unset == "<unset>"
EnvTimeouts == { Unset, "1", "2", "0", "-1", " 2 ", "abc", "1.5", "" }
IntLiterals == { "30", "1", "2", "0", "-1", " 2 " }

\* os.environ.get(name, default)
environ_get(e, default) == IF e = Unset THEN default ELSE e

\* int(s): the integer a literal denotes; invalid literals raise ValueError.
int_ok(s) == s \in IntLiterals
int(s) ==
  CASE s = "30" -> 30 [] s = "1" -> 1 [] s = "2" -> 2 [] s = " 2 " -> 2
    [] s = "0" -> 0 [] OTHER -> -1

\* Exceptions: class and message.
NoExc == [cls |-> "none", msg |-> ""]
Exc(c, m) == [cls |-> c, msg |-> m]
\* Classes derived from Exception.
ExceptionSubclasses ==
  { "ValueError", "JSONDecodeError", "UnicodeDecodeError", "AttributeError",
    "TypeError", "OSError", "FileNotFoundError", "MemoryError" }

\* Variant: main's handler written `except ValueError`.
main_catches_value_error(e) ==
  e.cls \in {"ValueError", "JSONDecodeError", "UnicodeDecodeError"}

\* main's handler `except Exception` (line 101) and execute_code's (line 60).
main_catches(e) == e.cls \in ExceptionSubclasses
execute_catches(e) == e.cls \in ExceptionSubclasses

\* -------------------------------------------------------- result values
NoResult == [none |-> TRUE]
\* Variant: success taken from `returncode >= 0`.
CompletedResult_nonneg(rc, so, se, ms) ==
  [success |-> (rc >= 0), stdout |-> so, stderr |-> se,
   exit_code |-> rc, execution_time |-> ms]

\* Variant: stderr is reported only for a failed child.
CompletedResult_stderr_on_failure(rc, so, se, ms) ==
  [success |-> (rc = 0), stdout |-> so,
   stderr |-> (IF rc = 0 THEN "" ELSE se),
   exit_code |-> rc, execution_time |-> ms]

\* The dictionary returned when the child ran to completion (lines 43-49).
CompletedResult(rc, so, se, ms) ==
  [success |-> (rc = 0), stdout |-> so, stderr |-> se,
   exit_code |-> rc, execution_time |-> ms]
\* Variant: execution_time left in seconds.
TimeoutResult_seconds(t) ==
  [success |-> FALSE, stdout |-> "",
   stderr |-> "Execution timed out after " \o str(t) \o " seconds",
   exit_code |-> -1, execution_time |-> t]

\* The dictionary returned on subprocess.TimeoutExpired (lines 52-58).
TimeoutResult(t) ==
  [success |-> FALSE, stdout |-> "",
   stderr |-> "Execution timed out after " \o str(t) \o " seconds",
   exit_code |-> -1, execution_time |-> t * 1000]
\* The dictionary returned on any other exception (lines 61-67).
ErrorResult(e) ==
  [success |-> FALSE, stdout |-> "",
   stderr |-> "Execution error: " \o e.msg,
   exit_code |-> -1, execution_time |-> 0]
\* The message main prints for empty code (lines 90-93).
NoCodeMessage == [success |-> FALSE, error |-> "No code provided"]
\* The message main prints from its exception handler (lines 102-105).
ExecutorErrorMessage(e) == [success |-> FALSE, error |-> "Executor error: " \o e.msg]

\* ------------------------------------------------------------ the child
\* How a child process can end: exit(n) or death by signal n.
ExitStatuses == {0, 1, 2}
\* Signal numbers: 1 is SIGHUP, 9 is SIGKILL.
Signals == {1, 9}
Terminations ==
  [kind : {"exit"}, n : ExitStatuses] \cup [kind : {"signal"}, n : Signals]
\* CompletedProcess.returncode: the exit status, or minus the signal number.
returncode(term) == IF term.kind = "exit" THEN term.n ELSE -term.n
\* Nothing written: no child ran to completion.
NoPipes == [stdout |-> "", stderr |-> "", traceback |-> FALSE]
\* What a child may have written to its stdout and stderr pipes.
ChildStdout == {"", "hi\n", "a\r\nb"}
\* line 21: code_file = Path(self.temp_dir) / 'main.py'
code_file(d) == d \o "/main.py"
\* What the interpreter writes to stderr when the script dies from an
\* uncaught exception: the traceback names the script it was given (line 33).
traceback(script) ==
  "Traceback (most recent call last):\n  File \"" \o script \o "\", line 1, in <module>"
\* The stderr text of a child run on the script: a traceback or nothing.
child_stderr(tb, script) == IF tb THEN traceback(script) ELSE ""
\* text=True (line 36): the captured bytes are decoded and every line
\* ending is translated to "\n".
text_mode(b) == IF b = "a\r\nb" THEN "a\nb" ELSE b
\* Variant: the wait is abandoned, the child is left as it is.
kill_and_wait_abandon(c) == c

\* subprocess.run on timeout: process.kill() then process.wait().
kill_and_wait(c) == "reaped"

\* ------------------------------------------------------ the file system
DirNames == {"/tmp/execution_a", "/tmp/execution_b", "/tmp/execution_c"}
NoFile == "<no file>"
\* Variant: the directory name is taken without looking at what exists.
mkdtemp_any_name(ds) == DirNames

\* tempfile.mkdtemp(prefix='execution_'): the names it can return, those of
\* directories that do not exist yet (the directory is created atomically).
mkdtemp(ds) == DirNames \ ds
\* Variant: only the source file is removed, the directory stays.
rmtree_file_only(ds, d, ok) == ds

\* shutil.rmtree(d, ignore_errors=True): removes d unless the removal fails.
rmtree(ds, d, ok) == IF ok THEN ds \ {d} ELSE ds
\* Variant: a failed removal replaces the result by an error result.
finally_return_masking(r, ok) ==
  IF ok THEN r ELSE ErrorResult(Exc("OSError", "[Errno 39] Directory not empty"))

\* The value execute_code hands to its caller once the finally block ran.
finally_return(r, ok) == r

\* (time.time() - start_time) * 1000, the clock counted in ticks.
elapsed_ms(start, end) == ((end - start) * 1000) \div TicksPerSecond

\* line 37: the ticks after which the wait of subprocess.run gives up; a
\* timeout of zero or less has expired when the wait starts.
deadline(t) == IF t > 0 THEN t * TicksPerSecond ELSE 0

\* ---------------------------------------------------------------- state
VARIABLES
  pc,          \* position in main / execute_code
  stdin,       \* the input channel
  env,         \* value of EXECUTION_TIMEOUT
  dirs,        \* directories existing under the temp root
  input_data,  \* main: text read from stdin
  data,        \* main: decoded request
  code,        \* main: data.get('code', '')
  timeout,     \* CodeExecutor.timeout
  temp_dir,    \* CodeExecutor.temp_dir
  main_py,     \* contents of temp_dir/main.py
  child,       \* the child process: "none", "alive", "reaped"
  spawns,      \* number of child processes launched
  clock,       \* time.time(), in ticks
  start_time,  \* execute_code: start_time
  outcome,     \* how the attempt ended: "none", "completed", "timeout", "fault"
  term,        \* how the child ended, when it ran to completion
  ret,         \* value of the return statement, pending during finally
  pending,     \* execute_code leaves by "return" or by "raise"
  result,      \* main: result of executor.execute_code
  exc,         \* the last exception raised
  fault_at,    \* step that raised: "none", "read", "parse", ...
  cleaned,     \* cleanup: "none", "removed", "failed"
  out,         \* messages written to stdout
  pipes,       \* what the child wrote to its stdout and stderr pipes
  exits,       \* whether the child ends on its own
  calls,       \* execute_code calls made on the executor
  used,        \* workspaces used by earlier calls on the executor
  run,         \* number of the invocation of main
  prev,        \* what the previous invocation of main observed
  workers      \* concurrent executions sharing the temp root

vars == << pc, stdin, env, dirs, input_data, data, code, timeout, temp_dir,
           main_py, child, spawns, clock, start_time, outcome, term, ret,
           pending, result, exc, fault_at, cleaned, out, pipes, exits,
           calls, used, run, prev, workers >>

Stdins ==
  { [tty |-> TRUE, readable |-> TRUE, text |-> ""],
    [tty |-> FALSE, readable |-> FALSE, text |-> ""] }
  \cup { [tty |-> FALSE, readable |-> TRUE, text |-> t] : t \in InputTexts }

Init ==
  /\ pc = "read"
  /\ stdin \in Stdins
  /\ env \in EnvTimeouts
  /\ dirs \in { {}, {"/tmp/execution_a"} }
  /\ input_data = ""
  /\ data = NoValue
  /\ code = NoValue
  /\ timeout = 0
  /\ temp_dir = ""
  /\ main_py = NoFile
  /\ child = "none"
  /\ spawns = 0
  /\ clock = 0
  /\ start_time = 0
  /\ outcome = "none"
  /\ term = NoValue
  /\ ret = NoResult
  /\ pending = "none"
  /\ result = NoResult
  /\ exc = NoExc
  /\ fault_at = "none"
  /\ cleaned = "none"
  /\ out = << >>
  /\ pipes = NoPipes
  /\ exits = TRUE
  /\ calls = 0
  /\ used = {}
  /\ run = 1
  /\ prev = NoResult
  /\ workers = << >>

\* An exception raised in main's try block, outside execute_code.
RaiseInMain(e, step) ==
  /\ exc' = e
  /\ fault_at' = step
  /\ pc' = "except"

\* line 83: input_data = sys.stdin.read() if not sys.stdin.isatty() else '{}'
ReadInput ==
  /\ pc = "read"
  /\ IF stdin.tty
       THEN /\ input_data' = "{}"
            /\ pc' = "parse"
            /\ UNCHANGED << exc, fault_at >>
       ELSE IF stdin.readable
         THEN /\ input_data' = stdin.text
              /\ pc' = "parse"
              /\ UNCHANGED << exc, fault_at >>
         ELSE /\ RaiseInMain(Exc("UnicodeDecodeError",
                     "'utf-8' codec can't decode byte 0xff in position 0: invalid start byte"),
                     "read")
              /\ UNCHANGED input_data
  /\ UNCHANGED << stdin, env, dirs, data, code, timeout, temp_dir, main_py,
                  child, spawns, clock, start_time, outcome, term, ret,
                  pending, result, cleaned, out >>
  /\ UNCHANGED << pipes, exits, calls, used, run, prev, workers >>

\* lines 84-87: decode the request and take its code
ParseInput ==
  /\ pc = "parse"
  /\ LET parsed == IF strip(input_data) # "" THEN json_loads(input_data)
                   ELSE JObject({}, NoValue)
     IN  IF parsed.t = "JSONDecodeError"
           THEN /\ RaiseInMain(Exc("JSONDecodeError", parsed.msg), "parse")
                /\ UNCHANGED << data, code >>
           ELSE IF parsed.t # "object"
             THEN /\ RaiseInMain(Exc("AttributeError",
                         "'" \o (IF parsed.t = "array" THEN "list" ELSE "NoneType")
                             \o "' object has no attribute 'get'"), "parse")
                  /\ UNCHANGED << data, code >>
             ELSE /\ data' = parsed
                  /\ code' = dict_get_code(parsed, JStr(""))
                  /\ pc' = "check"
                  /\ UNCHANGED << exc, fault_at >>
  /\ UNCHANGED << stdin, env, dirs, input_data, timeout, temp_dir, main_py,
                  child, spawns, clock, start_time, outcome, term, ret,
                  pending, result, cleaned, out >>
  /\ UNCHANGED << pipes, exits, calls, used, run, prev, workers >>

\* Variant: the `return` of line 94 is missing, main goes on to execute.
CheckCode_no_return ==
  /\ pc = "check"
  /\ IF ~truthy(code)
       THEN out' = Append(out, NoCodeMessage)
       ELSE UNCHANGED out
  /\ pc' = "init"
  /\ UNCHANGED << stdin, env, dirs, input_data, data, code, timeout, temp_dir,
                  main_py, child, spawns, clock, start_time, outcome, term,
                  ret, pending, result, exc, fault_at, cleaned >>
  /\ UNCHANGED << pipes, exits, calls, used, run, prev, workers >>

\* lines 89-94: empty code is reported and main returns
CheckCode ==
  /\ pc = "check"
  /\ IF ~truthy(code)
       THEN /\ out' = Append(out, NoCodeMessage)
            /\ pc' = "done"
       ELSE /\ pc' = "init"
            /\ UNCHANGED out
  /\ UNCHANGED << stdin, env, dirs, input_data, data, code, timeout, temp_dir,
                  main_py, child, spawns, clock, start_time, outcome, term,
                  ret, pending, result, exc, fault_at, cleaned >>
  /\ UNCHANGED << pipes, exits, calls, used, run, prev, workers >>

\* Variant: __init__ makes the workspace first and reads the timeout after.
ExecutorInit_mkdtemp_first ==
  /\ pc = "init"
  /\ LET s == environ_get(env, "30")
     IN  \/ \E d \in mkdtemp(dirs) :
              /\ temp_dir' = d
              /\ dirs' = dirs \cup {d}
              /\ IF ~int_ok(s)
                   THEN /\ RaiseInMain(Exc("ValueError",
                               "invalid literal for int() with base 10: '"
                                  \o s \o "'"), "config")
                        /\ UNCHANGED << timeout, calls >>
                   ELSE /\ timeout' = int(s)
                        /\ pc' = "write"
                        /\ calls' = calls + 1
                        /\ UNCHANGED << exc, fault_at >>
         \/ /\ RaiseInMain(Exc("OSError",
                   "[Errno 28] No space left on device"), "mkdtemp")
            /\ UNCHANGED << timeout, temp_dir, dirs, calls >>
  /\ UNCHANGED << stdin, env, input_data, data, code, main_py, child, spawns,
                  clock, start_time, outcome, term, ret, pending, result,
                  cleaned, out >>
  /\ UNCHANGED << pipes, exits, used, run, prev, workers >>

\* lines 96-97, CodeExecutor.__init__ (lines 12-15): configuration and
\* workspace, then the call of execute_code
ExecutorInit ==
  /\ pc = "init"
  /\ LET s == environ_get(env, "30")
     IN  IF ~int_ok(s)
           THEN /\ RaiseInMain(Exc("ValueError",
                       "invalid literal for int() with base 10: '" \o s \o "'"),
                       "config")
                /\ UNCHANGED << timeout, temp_dir, dirs, calls >>
           ELSE /\ timeout' = int(s)
                /\ \/ \E d \in mkdtemp(dirs) :
                        /\ temp_dir' = d
                        /\ dirs' = dirs \cup {d}
                        /\ pc' = "write"
                        /\ calls' = calls + 1
                        /\ UNCHANGED << exc, fault_at >>
                   \/ /\ RaiseInMain(Exc("OSError",
                             "[Errno 28] No space left on device"), "mkdtemp")
                      /\ UNCHANGED << temp_dir, dirs, calls >>
  /\ UNCHANGED << stdin, env, input_data, data, code, main_py, child, spawns,
                  clock, start_time, outcome, term, ret, pending, result,
                  cleaned, out >>
  /\ UNCHANGED << pipes, exits, used, run, prev, workers >>

\* Variant: a fault during the wait makes execute_code launch the child anew.
RaiseInExecute_retry(e, step) ==
  /\ fault_at' = step
  /\ exc' = e
  /\ IF step = "wait"
       THEN /\ pc' = "spawn"
            /\ UNCHANGED << outcome, ret, pending >>
       ELSE /\ outcome' = "fault"
            /\ pc' = "cleanup"
            /\ ret' = ErrorResult(e)
            /\ pending' = "return"

\* Variant: the handler returns its result without the finally clause.
RaiseInExecute_no_finally(e, step) ==
  /\ fault_at' = step
  /\ outcome' = "fault"
  /\ pc' = "print"
  /\ exc' = e
  /\ ret' = ErrorResult(e)
  /\ pending' = "return"

\* An exception raised inside execute_code's try block (lines 19-58): the
\* handler of line 60 builds the error result, then the finally block runs.
RaiseInExecute(e, step) ==
  /\ fault_at' = step
  /\ outcome' = "fault"
  /\ pc' = "cleanup"
  /\ exc' = e
  /\ IF execute_catches(e)
       THEN /\ ret' = ErrorResult(e)
            /\ pending' = "return"
       ELSE /\ pending' = "raise"
            /\ UNCHANGED ret

\* lines 21-27: write the code to temp_dir/main.py
WriteCode ==
  /\ pc = "write"
  /\ IF temp_dir \notin dirs
       THEN /\ RaiseInExecute(Exc("FileNotFoundError",
                   "[Errno 2] No such file or directory: '" \o code_file(temp_dir) \o "'"),
                   "write")
            /\ UNCHANGED main_py
       ELSE IF code.t # "str"
         THEN /\ RaiseInExecute(Exc("TypeError",
                     "write() argument must be str, not int"), "write")
              /\ main_py' = ""
         ELSE \/ /\ main_py' = code.s
                 /\ pc' = "spawn"
                 /\ UNCHANGED << outcome, ret, pending, exc, fault_at >>
              \/ /\ RaiseInExecute(Exc("OSError",
                        "[Errno 28] No space left on device"), "write")
                 /\ main_py' = ""
  /\ UNCHANGED << stdin, env, dirs, input_data, data, code, timeout, temp_dir,
                  child, spawns, clock, start_time, term, result, cleaned, out >>
  /\ UNCHANGED << pipes, exits, calls, used, run, prev, workers >>

\* lines 30-39, first half of subprocess.run: start the child
Spawn ==
  /\ pc = "spawn"
  /\ \/ /\ start_time' = clock
        /\ child' = "alive"
        /\ exits' \in BOOLEAN
        /\ spawns' = spawns + 1
        /\ pc' = "wait"
        /\ UNCHANGED << outcome, ret, pending, exc, fault_at >>
     \/ /\ start_time' = clock
        /\ RaiseInExecute(Exc("OSError", "[Errno 12] Cannot allocate memory"),
                          "spawn")
        /\ UNCHANGED << child, spawns, exits >>
  /\ UNCHANGED << stdin, env, dirs, input_data, data, code, timeout, temp_dir,
                  main_py, clock, term, result, cleaned, out >>
  /\ UNCHANGED << pipes, calls, used, run, prev, workers >>

\* lines 32-49: the child ends before the timeout; its status and output
\* are collected and the result is built
ChildExits ==
  /\ pc = "wait"
  /\ exits
  /\ \E d \in 0..MaxWait, tm \in Terminations,
        so \in ChildStdout, tb \in BOOLEAN :
        /\ d < deadline(timeout)
        /\ clock' = clock + d
        /\ term' = tm
        /\ pipes' = [stdout |-> so,
                     stderr |-> child_stderr(tb, code_file(temp_dir)),
                     traceback |-> tb]
        /\ ret' = CompletedResult(returncode(tm), text_mode(so),
                     text_mode(child_stderr(tb, code_file(temp_dir))),
                     elapsed_ms(start_time, clock + d))
  /\ child' = "reaped"
  /\ outcome' = "completed"
  /\ pending' = "return"
  /\ pc' = "cleanup"
  /\ UNCHANGED << stdin, env, dirs, input_data, data, code, timeout, temp_dir,
                  main_py, spawns, start_time, result, exc, fault_at, cleaned,
                  out >>
  /\ UNCHANGED << exits, calls, used, run, prev, workers >>

\* Variant: subprocess.run is called without a timeout, it never expires.
TimeoutExpired_no_timeout ==
  /\ pc = "wait"
  /\ FALSE
  /\ UNCHANGED vars

\* lines 32-39 and 51-58: the timeout elapses first; subprocess.run kills
\* and reaps the child and raises TimeoutExpired.  The time that has passed
\* by then is the timeout or somewhat more.
TimeoutExpired ==
  /\ pc = "wait"
  /\ \E over \in 0..MaxWait : clock' = clock + deadline(timeout) + over
  /\ child' = kill_and_wait(child)
  /\ outcome' = "timeout"
  /\ ret' = TimeoutResult(timeout)
  /\ pending' = "return"
  /\ pc' = "cleanup"
  /\ UNCHANGED << stdin, env, dirs, input_data, data, code, timeout, temp_dir,
                  main_py, spawns, start_time, term, result, exc, fault_at,
                  cleaned, out >>
  /\ UNCHANGED << pipes, exits, calls, used, run, prev, workers >>

\* Variant: subprocess.run lets the fault through and leaves the child be.
WaitFault_no_kill ==
  /\ pc = "wait"
  /\ \E e \in { Exc("UnicodeDecodeError",
                    "'utf-8' codec can't decode byte 0xff in position 0: invalid start byte"),
                Exc("MemoryError", "") } :
        RaiseInExecute(e, "wait")
  /\ \E d \in 0..MaxWait : clock' = clock + d
  /\ UNCHANGED << stdin, env, dirs, input_data, data, code, timeout, temp_dir,
                  main_py, spawns, start_time, term, result, cleaned, out >>
  /\ UNCHANGED << child, pipes, exits, calls, used, run, prev, workers >>

\* lines 32-39 and 60-67: subprocess.run raises while waiting or decoding
\* the captured output (text=True); it kills the child and reaps it first
WaitFault ==
  /\ pc = "wait"
  /\ \E e \in { Exc("UnicodeDecodeError",
                    "'utf-8' codec can't decode byte 0xff in position 0: invalid start byte"),
                Exc("MemoryError", "") } :
        RaiseInExecute(e, "wait")
  /\ \E d \in 0..MaxWait : clock' = clock + d
  /\ child' = kill_and_wait(child)
  /\ UNCHANGED << stdin, env, dirs, input_data, data, code, timeout, temp_dir,
                  main_py, spawns, start_time, term, result, cleaned, out >>
  /\ UNCHANGED << pipes, exits, calls, used, run, prev, workers >>

\* lines 68-77 and 97: the finally block removes the workspace, errors
\* ignored; then execute_code returns to main, or re-raises
cleanup ==
  /\ pc = "cleanup"
  /\ \E ok \in BOOLEAN :
        /\ dirs' = rmtree(dirs, temp_dir, ok)
        /\ cleaned' = IF ok THEN "removed" ELSE "failed"
        /\ main_py' = IF ok THEN NoFile ELSE main_py
        /\ IF pending = "return"
             THEN /\ result' = finally_return(ret, ok)
                  /\ pc' = "print"
             ELSE /\ pc' = "except"
                  /\ UNCHANGED result
  /\ UNCHANGED << stdin, env, input_data, data, code, timeout, temp_dir,
                  child, spawns, clock, start_time, outcome, term, ret,
                  pending, exc, fault_at, out >>
  /\ UNCHANGED << pipes, exits, calls, used, run, prev, workers >>

\* line 99: print(json.dumps(result))
PrintResult ==
  /\ pc = "print"
  /\ out' = Append(out, result)
  /\ pc' = "done"
  /\ UNCHANGED << stdin, env, dirs, input_data, data, code, timeout, temp_dir,
                  main_py, child, spawns, clock, start_time, outcome, term,
                  ret, pending, result, exc, fault_at, cleaned >>
  /\ UNCHANGED << pipes, exits, calls, used, run, prev, workers >>

\* lines 101-105: main's handler prints the error message; an exception it
\* does not catch leaves main
MainExcept ==
  /\ pc = "except"
  /\ IF main_catches(exc)
       THEN /\ out' = Append(out, ExecutorErrorMessage(exc))
            /\ pc' = "done"
       ELSE /\ pc' = "crashed"
            /\ UNCHANGED out
  /\ UNCHANGED << stdin, env, dirs, input_data, data, code, timeout, temp_dir,
                  main_py, child, spawns, clock, start_time, outcome, term,
                  ret, pending, result, exc, fault_at, cleaned >>
  /\ UNCHANGED << pipes, exits, calls, used, run, prev, workers >>

Next ==
  \/ ReadInput
  \/ ParseInput
  \/ CheckCode
  \/ ExecutorInit
  \/ WriteCode
  \/ Spawn
  \/ ChildExits
  \/ TimeoutExpired
  \/ WaitFault
  \/ cleanup
  \/ PrintResult
  \/ MainExcept

Spec == Init /\ [][Next]_vars

\* The steps the supervising process takes by itself.  It is scheduled, so
\* each of them happens once it can; the clock advances, so the timeout of
\* the wait expires unless the wait has ended before.  Whether and when the
\* child ends, and whether a fault strikes during the wait, is not promised.
OwnSteps ==
  \/ ReadInput
  \/ ParseInput
  \/ CheckCode
  \/ ExecutorInit
  \/ WriteCode
  \/ Spawn
  \/ TimeoutExpired
  \/ cleanup
  \/ PrintResult
  \/ MainExcept

SpecLive == Init /\ [][Next]_vars /\ WF_vars(OwnSteps)

\* line 17: a caller that holds the executor after execute_code returned
\* calls execute_code on it again; nothing in the class prevents it.
ExecuteAgain ==
  /\ pc = "print"
  /\ calls < MaxCalls
  /\ calls' = calls + 1
  /\ used' = used \cup {temp_dir}
  /\ pc' = "write"
  /\ child' = "none"
  /\ outcome' = "none"
  /\ term' = NoValue
  /\ pipes' = NoPipes
  /\ ret' = NoResult
  /\ pending' = "none"
  /\ exc' = NoExc
  /\ fault_at' = "none"
  /\ cleaned' = "none"
  /\ result' = NoResult
  /\ start_time' = 0
  /\ exits' = TRUE
  /\ UNCHANGED << stdin, env, dirs, input_data, data, code, timeout, temp_dir,
                  main_py, spawns, clock, out, run, prev, workers >>

NextApi ==
  \/ Next
  \/ ExecuteAgain

\* main, and callers that use one CodeExecutor for several calls.
SpecApi == Init /\ [][NextApi]_vars

\* The part of a printed message that two invocations are compared on:
\* everything but execution_time.
Answer(m) ==
  IF "exit_code" \in DOMAIN m
    THEN [success |-> m.success, stdout |-> m.stdout, stderr |-> m.stderr,
          exit_code |-> m.exit_code]
    ELSE m

\* lines 107-108: the caller runs the program a second time, on the same
\* input and with the same environment variables; the first run's message
\* and what happened in it are kept for comparison.
Reinvoke ==
  /\ pc = "done"
  /\ run = 1
  /\ run' = 2
  /\ prev' = [answer |-> Answer(out[1]), outcome |-> outcome, term |-> term,
              stdout |-> pipes.stdout, traceback |-> pipes.traceback,
              fault_at |-> fault_at, cls |-> exc.cls, cleaned |-> cleaned,
              timeout |-> timeout]
  /\ pc' = "read"
  /\ input_data' = ""
  /\ data' = NoValue
  /\ code' = NoValue
  /\ timeout' = 0
  /\ temp_dir' = ""
  /\ main_py' = IF cleaned = "failed" THEN main_py ELSE NoFile
  /\ child' = "none"
  /\ spawns' = 0
  /\ clock' = 0
  /\ start_time' = 0
  /\ outcome' = "none"
  /\ term' = NoValue
  /\ ret' = NoResult
  /\ pending' = "none"
  /\ result' = NoResult
  /\ exc' = NoExc
  /\ fault_at' = "none"
  /\ cleaned' = "none"
  /\ out' = << >>
  /\ pipes' = NoPipes
  /\ exits' = TRUE
  /\ calls' = 0
  /\ UNCHANGED << stdin, env, dirs, used, workers >>

NextTwice ==
  \/ Next
  \/ Reinvoke

\* Two invocations of main, one after the other, on the same request.
SpecTwice == Init /\ [][NextTwice]_vars

\* ------------------------------------------- concurrent invocations
\* Several invocations run at the same time, each with its own
\* CodeExecutor, on one file system; only their workspace handling is
\* followed.
Workers == 1..NumWorkers
main_vars == << pc, stdin, env, input_data, data, code, timeout, temp_dir,
                main_py, child, spawns, clock, start_time, outcome, term, ret,
                pending, result, exc, fault_at, cleaned, out, pipes, exits,
                calls, used, run, prev >>

InitConc ==
  /\ pc = "concurrent"
  /\ stdin = [tty |-> FALSE, readable |-> TRUE, text |-> "{\"code\": \"print('hi')\"}"]
  /\ env = Unset
  /\ dirs = {}
  /\ input_data = ""
  /\ data = NoValue
  /\ code = NoValue
  /\ timeout = 0
  /\ temp_dir = ""
  /\ main_py = NoFile
  /\ child = "none"
  /\ spawns = 0
  /\ clock = 0
  /\ start_time = 0
  /\ outcome = "none"
  /\ term = NoValue
  /\ ret = NoResult
  /\ pending = "none"
  /\ result = NoResult
  /\ exc = NoExc
  /\ fault_at = "none"
  /\ cleaned = "none"
  /\ out = << >>
  /\ pipes = NoPipes
  /\ exits = TRUE
  /\ calls = 0
  /\ used = {}
  /\ run = 1
  /\ prev = NoResult
  /\ workers = [w \in Workers |-> [pc |-> "init", temp_dir |-> "", outcome |-> "none"]]

\* line 15: the invocation creates its workspace, or mkdtemp raises
WorkerInit(w) ==
  /\ workers[w].pc = "init"
  /\ \/ \E d \in mkdtemp(dirs) :
          /\ dirs' = dirs \cup {d}
          /\ workers' = [workers EXCEPT ![w].pc = "write", ![w].temp_dir = d]
     \/ /\ workers' = [workers EXCEPT ![w].pc = "returned"]
        /\ UNCHANGED dirs
  /\ UNCHANGED main_vars

\* lines 21-23: the source file is written into the workspace
WorkerWrite(w) ==
  /\ workers[w].pc = "write"
  /\ IF workers[w].temp_dir \notin dirs
       THEN workers' = [workers EXCEPT ![w].pc = "cleanup", ![w].outcome = "fault"]
       ELSE \/ workers' = [workers EXCEPT ![w].pc = "spawn"]
            \/ workers' = [workers EXCEPT ![w].pc = "cleanup", ![w].outcome = "fault"]
  /\ UNCHANGED << dirs, main_vars >>

\* lines 32-39: the child is started with the workspace as its directory
WorkerSpawn(w) ==
  /\ workers[w].pc = "spawn"
  /\ \/ workers' = [workers EXCEPT ![w].pc = "wait"]
     \/ workers' = [workers EXCEPT ![w].pc = "cleanup", ![w].outcome = "fault"]
  /\ UNCHANGED << dirs, main_vars >>

\* lines 32-67: the child ends, is killed on timeout, or the wait faults
WorkerWait(w) ==
  /\ workers[w].pc = "wait"
  /\ \E o \in {"completed", "timeout", "fault"} :
        workers' = [workers EXCEPT ![w].pc = "cleanup", ![w].outcome = o]
  /\ UNCHANGED << dirs, main_vars >>

\* lines 68-77: the invocation removes its own workspace, errors ignored
WorkerCleanup(w) ==
  /\ workers[w].pc = "cleanup"
  /\ \E ok \in BOOLEAN : dirs' = rmtree(dirs, workers[w].temp_dir, ok)
  /\ workers' = [workers EXCEPT ![w].pc = "returned"]
  /\ UNCHANGED main_vars

NextConc ==
  \/ \E w \in Workers : WorkerInit(w)
  \/ \E w \in Workers : WorkerWrite(w)
  \/ \E w \in Workers : WorkerSpawn(w)
  \/ \E w \in Workers : WorkerWait(w)
  \/ \E w \in Workers : WorkerCleanup(w)

SpecConc == InitConc /\ [][NextConc]_vars

\* ------------------------------------------------------------ properties
\* execute_code has run its finally block and left (by return or raise).
Returned == cleaned # "none"
\* main has finished.
Finished == pc \in {"done", "crashed"}

\* C1 (as stated): whatever the outcome of execute_code, the workspace
\* directory created for the execution no longer exists once the call has
\* returned.
C1_WorkspaceGoneOnReturn ==
  Returned => temp_dir \notin dirs

\* C1 (amended): on every outcome the removal of the workspace has been
\* attempted once the call has returned, and the directory no longer exists
\* unless that removal failed.
C1_WorkspaceRemovalAttempted ==
  /\ (outcome # "none" /\ pc \in {"print", "except", "done", "crashed"})
        => Returned
  /\ (Returned /\ cleaned = "removed") => temp_dir \notin dirs
  /\ (Returned /\ temp_dir \in dirs) => cleaned = "failed"

C1_Witness ==
  /\ pc = "done" /\ outcome = "timeout" /\ cleaned = "removed"
  /\ temp_dir \in DirNames /\ temp_dir \notin dirs

\* The requests whose code is empty or absent.
EmptyCodeRequest ==
  \/ stdin.tty
  \/ /\ stdin.readable
     /\ stdin.text \in { "", " \n", "{}", "{\"test_cases\": []}",
                         "{\"code\": \"\"}", "{\"code\": null}" }

\* C2: for a request whose code is empty or absent, main never spawns a
\* child and the only message it emits is {success: false, error: "No code
\* provided"}.
C2_EmptyCodeNoChild ==
  EmptyCodeRequest =>
    /\ spawns = 0 /\ child = "none" /\ temp_dir = ""
    /\ pc \in {"read", "parse", "check", "done"}
    /\ pc = "done" => out = << [success |-> FALSE, error |-> "No code provided"] >>
    /\ pc # "done" => out = << >>

C2_Witness ==
  /\ pc = "done" /\ ~stdin.tty /\ stdin.text = "{\"code\": \"\"}"
  /\ out = << [success |-> FALSE, error |-> "No code provided"] >>

\* C3: every invocation of main writes exactly one message to the output
\* channel: none before it finishes, one when it has finished, never two.
C3_ExactlyOneMessage ==
  /\ Len(out) <= 1
  /\ Finished => Len(out) = 1
  /\ ~Finished => Len(out) = 0

C3_Witness ==
  pc = "done" /\ fault_at = "parse" /\ Len(out) = 1

\* C4: no fault raised at a step of the invocation leaves main unhandled;
\* the message written for it is an execution-fault result or a top-level
\* {success: false, error: ...} message.
C4_NoFaultEscapes ==
  /\ pc # "crashed"
  /\ (pc = "done" /\ fault_at # "none") =>
        \/ out = << [success |-> FALSE, stdout |-> "",
                     stderr |-> "Execution error: " \o exc.msg,
                     exit_code |-> -1, execution_time |-> 0] >>
        \/ out = << [success |-> FALSE,
                     error |-> "Executor error: " \o exc.msg] >>

C4_Witness ==
  /\ pc = "done" /\ fault_at = "spawn" /\ Len(out) = 1
  /\ out[1].exit_code = -1

\* C5: when the timeout elapses before the child exits, execute_code
\* returns success false, empty stdout, the fixed timeout message, exit
\* code -1 and execution_time = timeout * 1000, whatever time elapsed.
C5_TimeoutResult ==
  (outcome = "timeout" /\ pc \in {"print", "done"}) =>
     /\ result = [success |-> FALSE, stdout |-> "",
                  stderr |-> "Execution timed out after " \o str(timeout) \o " seconds",
                  exit_code |-> -1, execution_time |-> timeout * 1000]
     /\ timeout = 1 => /\ result.stderr = "Execution timed out after 1 seconds"
                       /\ result.execution_time = 1000
     /\ timeout = -1 => /\ result.stderr = "Execution timed out after -1 seconds"
                        /\ result.execution_time = -1000

C5_Witness ==
  /\ pc = "done" /\ outcome = "timeout" /\ timeout = 1
  /\ elapsed_ms(start_time, clock) > 1000
  /\ result.execution_time = 1000

\* C6: on the timeout path no child launched by the call is alive once the
\* call has returned.
C6_NoChildAfterTimeout ==
  (outcome = "timeout" /\ Returned) => child = "reaped"

C6_Witness ==
  pc = "done" /\ outcome = "timeout" /\ spawns = 1 /\ child = "reaped"

C8_MinusOneReserved ==
  (Returned /\ pending = "return") =>
     (result.exit_code = -1 <=> outcome \in {"timeout", "fault"})

\* C9: a fault while creating the workspace, writing the source file or
\* spawning the child is surfaced as the execution-fault result.
C9_SetupFaultIsExecutionFault ==
  (pc = "done" /\ fault_at \in {"mkdtemp", "write", "spawn"}) =>
     out = << [success |-> FALSE, stdout |-> "",
               stderr |-> "Execution error: " \o exc.msg,
               exit_code |-> -1, execution_time |-> 0] >>

\* C10: a failed removal of the workspace leaves the outcome of the call
\* as it is: the caller receives the result that was being returned, and
\* the failure does not reach the caller as an exception.
C10_CleanupFailureHarmless ==
  (Returned /\ cleaned = "failed") =>
     /\ pc \in {"print", "done"}
     /\ result = ret
     /\ pc = "done" => out = << ret >>
     /\ outcome = "timeout" => result.exit_code = -1 /\ result.stdout = ""
     /\ outcome = "completed" => result.exit_code = returncode(term)
     /\ outcome = "fault" => result.stderr = "Execution error: " \o exc.msg

C10_Witness ==
  /\ pc = "done" /\ cleaned = "failed" /\ outcome = "completed"
  /\ temp_dir \in dirs /\ out = << ret >> /\ result.success = TRUE

C12_WorkspaceFreshPerCall ==
  pc = "write" => (temp_dir \in dirs /\ temp_dir \notin used)

\* An invocation is in flight: it has its workspace and has not yet run
\* its cleanup.
InFlight(w) == workers[w].pc \in {"write", "spawn", "wait", "cleanup"}

\* C13: of the executions in flight at the same time no two use the same
\* workspace directory, and the directory of an execution in flight exists:
\* no cleanup of another execution has removed it.  No lock is taken.
C13_WorkspacesDisjoint ==
  /\ \A w1, w2 \in Workers :
        (w1 # w2 /\ InFlight(w1) /\ InFlight(w2))
           => workers[w1].temp_dir # workers[w2].temp_dir
  /\ \A w \in Workers : InFlight(w) => workers[w].temp_dir \in dirs

C13_Witness ==
  /\ workers[1].pc = "wait" /\ workers[2].pc = "returned"
  /\ workers[2].temp_dir \in DirNames
  /\ workers[2].temp_dir \notin dirs
  /\ workers[1].temp_dir \in dirs

\* The second invocation met what the first met: the child ended the same
\* way having written the same stdout and died of the same exception or of
\* none, the same step faulted with the same exception, the timeout setting
\* is the same, and the first run left the file system as it found it.
SameRun ==
  /\ prev.outcome = outcome /\ prev.term = term
  /\ prev.stdout = pipes.stdout /\ prev.traceback = pipes.traceback
  /\ prev.fault_at = fault_at /\ prev.cls = exc.cls
  /\ prev.timeout = timeout /\ prev.cleaned # "failed"

\* C14: two invocations with the same code in the same environment give
\* results with the same success, stdout, stderr and exit_code.
C14_Idempotent ==
  (run = 2 /\ pc = "done" /\ SameRun) =>
     IF "exit_code" \in DOMAIN out[1] /\ "exit_code" \in DOMAIN prev.answer
       THEN /\ out[1].success = prev.answer.success
            /\ out[1].stdout = prev.answer.stdout
            /\ out[1].stderr = prev.answer.stderr
            /\ out[1].exit_code = prev.answer.exit_code
       ELSE out[1] = prev.answer

\* The states of one execute_code call, read off the program state.
CREATED == temp_dir # ""
RUNNING == spawns >= 1
COMPLETED == outcome = "completed"
TIMED_OUT == outcome = "timeout"
FAILED == outcome = "fault"
CLEANED_UP == cleaned # "none"
\* execute_code has been entered and has handed control back to main.
CallOver == CREATED /\ pc \in {"print", "except", "done", "crashed"}

\* C15 (as stated): every call goes CREATED, RUNNING, one outcome state,
\* CLEANED_UP: RUNNING precedes whichever outcome state is reached.
C15_RunningBeforeOutcome ==
  /\ (COMPLETED \/ TIMED_OUT \/ FAILED) => (CREATED /\ RUNNING)
  /\ CLEANED_UP => (COMPLETED \/ TIMED_OUT \/ FAILED)
  /\ CallOver => CLEANED_UP

\* C15 (amended): every call is CREATED, reaches exactly one outcome state
\* and is CLEANED_UP only after it; RUNNING precedes COMPLETED and TIMED_OUT,
\* while FAILED also follows CREATED directly when the file write or the
\* spawn faults.
C15_Lifecycle ==
  /\ [](/\ (COMPLETED \/ TIMED_OUT \/ FAILED) => CREATED
        /\ (COMPLETED \/ TIMED_OUT) => RUNNING
        /\ (FAILED /\ ~RUNNING) => fault_at \in {"write", "spawn"}
        /\ CLEANED_UP => (COMPLETED \/ TIMED_OUT \/ FAILED)
        /\ CallOver => CLEANED_UP)
  /\ [][outcome # "none" => outcome' = outcome]_vars
  /\ [][cleaned # "none" => cleaned' = cleaned]_vars

C15_Witness ==
  /\ pc = "done" /\ CREATED /\ ~RUNNING /\ FAILED /\ CLEANED_UP
  /\ fault_at = "write"

\* C16: every execute_code call returns a result in the end, also when the
\* child never ends on its own: the wait ends when the child ends or when
\* the timeout expires, and cleanup and the return follow.
C16_CallReturns ==
  (pc \in {"write", "spawn", "wait", "cleanup"}) ~>
     (pc = "print" /\ Returned /\ result # NoResult)

C16_Witness ==
  /\ pc = "print" /\ ~exits /\ outcome = "timeout" /\ env = Unset
  /\ timeout = 30 /\ Returned /\ result.exit_code = -1

\* C17: within one invocation the child is launched at most once and one
\* workspace is made; once the attempt has ended in a timeout, a fault or
\* any exit, nothing is launched or created again and the failure is
\* reported once.
C17_NoRetry ==
  /\ [](spawns <= 1 /\ calls <= 1 /\ Len(out) <= 1)
  /\ [][outcome # "none" =>
          /\ spawns' = spawns
          /\ calls' = calls
          /\ temp_dir' = temp_dir
          /\ outcome' = outcome
          /\ dirs' \subseteq dirs
          /\ pc' \notin {"init", "write", "spawn", "wait"}]_vars
  /\ [][temp_dir # "" => temp_dir' = temp_dir]_vars

C17_Witness ==
  /\ pc = "done" /\ outcome = "fault" /\ fault_at = "wait"
  /\ spawns = 1 /\ calls = 1 /\ Len(out) = 1 /\ out[1].success = FALSE

\* An execution is attempted: execute_code has been entered.
Attempted == calls >= 1

\* C18 (as stated): whenever an execution is attempted the configured
\* timeout is a positive integer, and the execution_time of a timeout
\* result is therefore above zero.
C18_TimeoutPositive ==
  /\ Attempted => timeout > 0
  /\ (Attempted /\ outcome = "timeout") => ret.execution_time > 0

\* The request has failed before execute_code was entered: the input could
\* not be read or parsed, was no object, held no code, or the timeout
\* setting was no integer.
EarlyFailure ==
  \/ fault_at \in {"read", "parse", "config"}
  \/ (pc = "done" /\ out = << NoCodeMessage >>)

\* C19: on the paths that fail before the supervisor runs no workspace
\* is created: no directory appears on disk before execute_code is entered,
\* and on those paths there is no workspace, no code file and no cleanup.
C19_NoWorkspaceOnEarlyFailure ==
  /\ [](EarlyFailure =>
          /\ ~Attempted
          /\ temp_dir = ""
          /\ main_py = NoFile
          /\ cleaned = "none"
          /\ spawns = 0)
  /\ [][~Attempted' => dirs' = dirs]_vars

C19_Witness ==
  /\ pc = "done" /\ fault_at = "config" /\ env = "abc"
  /\ temp_dir = "" /\ cleaned = "none" /\ Len(out) = 1

\* C20: the workspace is never removed while a child launched in it is
\* alive: the one cleanup of a call is taken only when the child has
\* exited, has been killed and reaped, or was never launched, and every
\* call that was entered has had its cleanup when it hands back control.
C20_CleanupAfterChild ==
  /\ []((pc = "cleanup" \/ cleaned # "none") => child \in {"none", "reaped"})
  /\ [][cleaned' # cleaned =>
          /\ cleaned = "none"
          /\ pc = "cleanup"
          /\ child \in {"none", "reaped"}
          /\ child' = child]_vars
  /\ []((Attempted /\ pc \in {"print", "except", "done", "crashed"}) =>
          cleaned # "none")
  /\ []((child = "none") <=> (spawns = 0))

C20_Witness ==
  /\ pc = "done" /\ ~exits /\ spawns = 1 /\ child = "reaped"
  /\ outcome = "fault" /\ fault_at = "wait" /\ cleaned = "removed"
====
